---- MODULE Spec2Model ----
(***************************************************************************)
(* Dig Dug clone: the tile grid, the player controller, the enemy AI       *)
(* controller and the tick loop of main.                                   *)
(*                                                                         *)
(* Sources: src/types.h, src/grid.c (grid and enemy controller),           *)
(* src/player.c (player controller), src/player.h (Player, Enemy,          *)
(* Direction), src/main.c (tick loop).                                     *)
(***************************************************************************)
EXTENDS Integers, Sequences, FiniteSets, TLC

(***************************************************************************)
(* Program constants                                                       *)
(***************************************************************************)
GRID_WIDTH == 20
GRID_HEIGHT == 15

TILE_EMPTY == 0
TILE_DIRT == 1
TILE_TUNNEL == 2
TILE_ROCK == 3

DIR_UP == 0
DIR_DOWN == 1
DIR_LEFT == 2
DIR_RIGHT == 3

ENEMY_POOKA == 0
ENEMY_FYGAR == 1

(***************************************************************************)
(* Bounds of the exploration                                               *)
(***************************************************************************)
\* number of frames of the main loop before the quit event arrives, in the
\* session of main and in a session with another enemy spawn
MaxTicks == 25
MaxSpawnTicks == 17
\* and in a session started from the enemy test position
MaxScenarioTicks == 12
\* and in a session with the enemy spawned under the rock
MaxUnderRockTicks == 12
\* and in a session with the enemy spawned next to the player
MaxAdjacentTicks == 10
\* and in a session whose loop is taken to run on, long enough for the
\* slowdown of a move into the tunnel to run out
MaxLiveTicks == 12
\* and in a session long enough for a second move after a move into dirt
MaxLongTicks == 21
\* and in a session with a dead enemy in the array
MaxDeadTicks == 11
\* number of directional key events polled in one frame
MaxEvents == 2

\* number of calls made in a session of calls of the grid module
MaxCalls == 3

Tiles == {TILE_EMPTY, TILE_DIRT, TILE_TUNNEL, TILE_ROCK}
Dirs == {DIR_UP, DIR_DOWN, DIR_LEFT, DIR_RIGHT}
Rows == 0 .. (GRID_HEIGHT - 1)
Cols == 0 .. (GRID_WIDTH - 1)

\* values of rand() % 100 on both sides of the 30% threshold
Rolls == {0, 29, 30, 99}
\* values of rand() that select an alternative direction
Picks == 0 .. 2

\* contents of the grid array before grid_init (automatic storage)
UninitGrids ==
  { [row \in Rows |-> [col \in Cols |-> t]] : t \in {TILE_EMPTY, TILE_ROCK} }

\* enemy spawn cells (col, row) of the level: the spawn of main and the dirt
\* cell between the rock and the cell under the player's spawn
EnemySpawns == { <<20, 5>>, <<10, 4>> }

\* enemy spawn cells on column 20, one past the right edge: the spawn of
\* main, and one as far below the player's row as the player is to its left
EdgeSpawns == { <<20, 5>>, <<20, 12>> }

\* values of move_slowdown an enemy may carry when it dies
DeadSlowdowns == {0, 7}

\* rows and columns passed to grid_get_tile and grid_set_tile: both sides of
\* each edge, and the row and the column of the rock
ProbeRows == {-1, 0, 5, GRID_HEIGHT - 1, GRID_HEIGHT}
ProbeCols == {-1, 0, 10, GRID_WIDTH - 1, GRID_WIDTH}
\* tiles passed to grid_set_tile: the one the player stores, and one that no
\* cell of the level but the rock's holds
StoredTiles == {TILE_TUNNEL, TILE_ROCK}

VARIABLES grid, player, enemies, running, pc, i, nevents, tick, frames, owed,
          acted, last

vars == <<grid, player, enemies, running, pc, i, nevents, tick, frames, owed,
          acted, last>>

(***************************************************************************)
(* grid.c                                                                  *)
(***************************************************************************)
\* variant: the tunnel of row 2 one cell shorter
grid_init_short_tunnel(g) ==
  [row \in Rows |-> [col \in Cols |->
     IF row < 2 THEN TILE_EMPTY
     ELSE IF row = 2
          THEN (IF col >= 5 /\ col < 14 THEN TILE_TUNNEL ELSE TILE_DIRT)
     ELSE IF row = 5 /\ col = 10 THEN TILE_ROCK
     ELSE TILE_DIRT]]

\* variant: the two surface rows not written
grid_init_keeps_surface(g) ==
  [row \in Rows |-> [col \in Cols |->
     IF row < 2 THEN g[row][col]
     ELSE IF row = 2
          THEN (IF col >= 5 /\ col <= 14 THEN TILE_TUNNEL ELSE TILE_DIRT)
     ELSE IF row = 5 /\ col = 10 THEN TILE_ROCK
     ELSE TILE_DIRT]]

grid_init(g) ==
  [row \in Rows |-> [col \in Cols |->
     IF row < 2 THEN TILE_EMPTY
     ELSE IF row = 2
          THEN (IF col >= 5 /\ col <= 14 THEN TILE_TUNNEL ELSE TILE_DIRT)
     ELSE IF row = 5 /\ col = 10 THEN TILE_ROCK
     ELSE TILE_DIRT]]

\* variant: an outside coordinate clamped to the nearest cell of the grid
grid_get_tile_clamped(g, row, col) ==
  g[IF row < 0 THEN 0 ELSE IF row >= GRID_HEIGHT THEN GRID_HEIGHT - 1 ELSE row]
   [IF col < 0 THEN 0 ELSE IF col >= GRID_WIDTH THEN GRID_WIDTH - 1 ELSE col]

grid_get_tile(g, row, col) ==
  IF row < 0 \/ row >= GRID_HEIGHT \/ col < 0 \/ col >= GRID_WIDTH
  THEN TILE_EMPTY
  ELSE g[row][col]

\* variant: the bounds test inverted, so that an in-bounds store is dropped
grid_set_tile_dropped(g, row, col, type) == g

\* variant: a column past the right edge wraps around to the left edge
grid_set_tile_wraps(g, row, col, type) ==
  IF row < 0 \/ row >= GRID_HEIGHT \/ col < 0
  THEN g
  ELSE [g EXCEPT ![row][col % GRID_WIDTH] = type]

\* variant: the store lands one column to the left
grid_set_tile_shifted(g, row, col, type) ==
  IF row < 0 \/ row >= GRID_HEIGHT \/ col < 1 \/ col >= GRID_WIDTH
  THEN g
  ELSE [g EXCEPT ![row][col - 1] = type]

grid_set_tile(g, row, col, type) ==
  IF row < 0 \/ row >= GRID_HEIGHT \/ col < 0 \/ col >= GRID_WIDTH
  THEN g
  ELSE [g EXCEPT ![row][col] = type]

(***************************************************************************)
(* player.c                                                                *)
(***************************************************************************)
player_init(start_col, start_row) ==
  [col |-> start_col, row |-> start_row, facing |-> DIR_RIGHT,
   is_alive |-> TRUE, dirt_dug |-> 0, move_slowdown |-> 0]

\* variant: no tile blocks the player
can_move_to_always(tile) == TRUE

\* variant: tunnels forgotten
can_move_to_empty_only(tile) == tile = TILE_EMPTY

\* variant: everything but dirt is walkable
can_move_to_not_dirt(tile) == tile # TILE_DIRT

can_move_to(tile) == tile = TILE_EMPTY \/ tile = TILE_TUNNEL

\* the switch on dir: the candidate cell, one step from (col, row)
new_col_of(col, dir) ==
  IF dir = DIR_LEFT THEN col - 1 ELSE IF dir = DIR_RIGHT THEN col + 1 ELSE col

new_row_of(row, dir) ==
  IF dir = DIR_UP THEN row - 1 ELSE IF dir = DIR_DOWN THEN row + 1 ELSE row

\* variant: the upper limits of the bounds check off by one
out_of_grid_off_by_one(new_col, new_row) ==
  new_col < 0 \/ new_col > GRID_WIDTH \/ new_row < 0 \/ new_row > GRID_HEIGHT

out_of_grid(new_col, new_row) ==
  new_col < 0 \/ new_col >= GRID_WIDTH \/ new_row < 0 \/ new_row >= GRID_HEIGHT

\* variant: the test placed after the dirt conversion, where the local view
\* of the destination is already a tunnel
cannot_dig_too_late(destination, dir) == TILE_TUNNEL = TILE_DIRT /\ dir = DIR_UP

\* "cannot dig upwards": the test that rejects a dig towards row - 1
cannot_dig(destination, dir) == destination = TILE_DIRT /\ dir = DIR_UP

\* variant: every tile that is not rock is dug
just_dug_not_rock(destination) == destination # TILE_ROCK

\* the value of just_dug: the destination is dirt to remove
just_dug(destination) == destination = TILE_DIRT

\* variant: a successful move sets no slowdown
player_slowdown_none(dug) == 0

\* variant: the digging slowdown for every move
player_slowdown_always_dig(dug) == 8

\* slowdown set by a successful move
player_slowdown(dug) == IF dug THEN 8 ELSE 3

\* variant: dirt_dug counts every successful move
player_move_counts_steps(p, dir, g) ==
  IF p.move_slowdown > 0
  THEN [ret |-> FALSE, player |-> p, grid |-> g]
  ELSE
    LET new_col == new_col_of(p.col, dir)
        new_row == new_row_of(p.row, dir)
    IN
    IF out_of_grid(new_col, new_row)
    THEN [ret |-> FALSE, player |-> p, grid |-> g]
    ELSE
      LET destination == grid_get_tile(g, new_row, new_col) IN
      IF cannot_dig(destination, dir)
      THEN [ret |-> FALSE, player |-> p, grid |-> g]
      ELSE
        LET dug == just_dug(destination)
            g2 == IF dug
                  THEN grid_set_tile(g, new_row, new_col, TILE_TUNNEL)
                  ELSE g
            dest2 == IF dug THEN TILE_TUNNEL ELSE destination
            p2 == IF dug THEN [p EXCEPT !.dirt_dug = @ + 1] ELSE p
        IN
        IF ~can_move_to(dest2)
        THEN [ret |-> FALSE, player |-> p2, grid |-> g2]
        ELSE [ret |-> TRUE,
              player |-> [p2 EXCEPT !.col = new_col, !.row = new_row,
                                    !.dirt_dug = p.dirt_dug + 1,
                                    !.facing = dir,
                                    !.move_slowdown = player_slowdown(dug)],
              grid |-> g2]

\* result of player_move: the return value, the player and the grid after it
player_move(p, dir, g) ==
  IF p.move_slowdown > 0
  THEN [ret |-> FALSE, player |-> p, grid |-> g]
  ELSE
    LET new_col == new_col_of(p.col, dir)
        new_row == new_row_of(p.row, dir)
    IN
    IF out_of_grid(new_col, new_row)
    THEN [ret |-> FALSE, player |-> p, grid |-> g]
    ELSE
      LET destination == grid_get_tile(g, new_row, new_col) IN
      IF cannot_dig(destination, dir)
      THEN [ret |-> FALSE, player |-> p, grid |-> g]
      ELSE
        LET dug == just_dug(destination)
            g2 == IF dug
                  THEN grid_set_tile(g, new_row, new_col, TILE_TUNNEL)
                  ELSE g
            dest2 == IF dug THEN TILE_TUNNEL ELSE destination
            p2 == IF dug THEN [p EXCEPT !.dirt_dug = @ + 1] ELSE p
        IN
        IF ~can_move_to(dest2)
        THEN [ret |-> FALSE, player |-> p2, grid |-> g2]
        ELSE [ret |-> TRUE,
              player |-> [p2 EXCEPT !.col = new_col, !.row = new_row,
                                    !.facing = dir,
                                    !.move_slowdown = player_slowdown(dug)],
              grid |-> g2]

\* variant: the countdown stops at 1
player_update_stalls(p) ==
  IF p.move_slowdown > 1 THEN [p EXCEPT !.move_slowdown = @ - 1] ELSE p

\* variant: two frames counted per call
player_update_by_two(p) ==
  IF p.move_slowdown > 1 THEN [p EXCEPT !.move_slowdown = @ - 2]
  ELSE [p EXCEPT !.move_slowdown = 0]

\* variant: the test of move_slowdown > 0 missing
player_update_unguarded(p) == [p EXCEPT !.move_slowdown = @ - 1]

player_update(p) ==
  IF p.move_slowdown > 0 THEN [p EXCEPT !.move_slowdown = @ - 1] ELSE p

(***************************************************************************)
(* enemy controller (second unit of grid.c)                                *)
(***************************************************************************)
enemy_init(type, col, row) ==
  [col |-> col, row |-> row, type |-> type, facing |-> DIR_LEFT,
   is_alive |-> TRUE, move_slowdown |-> 0, is_ghosting |-> FALSE]

\* variant: the enemy walks through tunnels only
enemy_can_walk_tunnel_only(tile) == tile = TILE_TUNNEL

\* variant: no ghosting, dirt blocks the enemy as it blocks a walking player
enemy_can_walk_open_only(tile) == tile = TILE_EMPTY \/ tile = TILE_TUNNEL

enemy_can_walk(tile) ==
  tile = TILE_EMPTY \/ tile = TILE_TUNNEL \/ tile = TILE_DIRT

abs(x) == IF x < 0 THEN -x ELSE x

\* no direction / no tile: the value of a history field that does not apply
NoDir == -1
NoTile == -1

\* variant: the horizontal branch also taken when the distances are equal
get_dir_to_ge(from_col, from_row, to_col, to_row) ==
  LET dx == to_col - from_col
      dy == to_row - from_row
  IN IF abs(dx) >= abs(dy)
     THEN (IF dx > 0 THEN DIR_RIGHT ELSE DIR_LEFT)
     ELSE (IF dy > 0 THEN DIR_DOWN ELSE DIR_UP)

\* variant: left and right exchanged
get_dir_to_mirrored(from_col, from_row, to_col, to_row) ==
  LET dx == to_col - from_col
      dy == to_row - from_row
  IN IF abs(dx) > abs(dy)
     THEN (IF dx > 0 THEN DIR_LEFT ELSE DIR_RIGHT)
     ELSE (IF dy > 0 THEN DIR_DOWN ELSE DIR_UP)

\* variant: the direction from the target back to the enemy
get_dir_to_away(from_col, from_row, to_col, to_row) ==
  LET dx == from_col - to_col
      dy == from_row - to_row
  IN IF abs(dx) > abs(dy)
     THEN (IF dx > 0 THEN DIR_RIGHT ELSE DIR_LEFT)
     ELSE (IF dy > 0 THEN DIR_DOWN ELSE DIR_UP)

get_dir_to(from_col, from_row, to_col, to_row) ==
  LET dx == to_col - from_col
      dy == to_row - from_row
  IN IF abs(dx) > abs(dy)
     THEN (IF dx > 0 THEN DIR_RIGHT ELSE DIR_LEFT)
     ELSE (IF dy > 0 THEN DIR_DOWN ELSE DIR_UP)

\* variant: a shorter slowdown out of dirt
enemy_slowdown_short(tile) == IF tile = TILE_DIRT THEN 20 ELSE 5

\* variant: the two slowdowns exchanged
enemy_slowdown_swapped(tile) == IF tile = TILE_DIRT THEN 10 ELSE 20

\* slowdown set by a successful enemy move onto tile
enemy_slowdown(tile) == IF tile = TILE_DIRT THEN 20 ELSE 10

\* variant: the enemy digs the dirt it enters, as the player does
enemy_try_move_digs(e, dir, g) ==
  LET new_col == new_col_of(e.col, dir)
      new_row == new_row_of(e.row, dir)
  IN
  IF out_of_grid(new_col, new_row)
  THEN [ret |-> FALSE, enemy |-> e, grid |-> g]
  ELSE
    LET tile == grid_get_tile(g, new_row, new_col) IN
    IF tile = TILE_ROCK
    THEN [ret |-> FALSE, enemy |-> e, grid |-> g]
    ELSE IF ~enemy_can_walk(tile)
    THEN [ret |-> FALSE, enemy |-> e, grid |-> g]
    ELSE [ret |-> TRUE,
          enemy |-> [e EXCEPT !.col = new_col, !.row = new_row,
                              !.facing = dir,
                              !.is_ghosting = (tile = TILE_DIRT),
                              !.move_slowdown = enemy_slowdown(tile)],
          grid |-> IF tile = TILE_DIRT
                   THEN grid_set_tile(g, new_row, new_col, TILE_TUNNEL)
                   ELSE g]

\* result of enemy_try_move: the return value, and the enemy and the grid
\* (both reached through pointers) after it
enemy_try_move(e, dir, g) ==
  LET new_col == new_col_of(e.col, dir)
      new_row == new_row_of(e.row, dir)
  IN
  IF out_of_grid(new_col, new_row)
  THEN [ret |-> FALSE, enemy |-> e, grid |-> g]
  ELSE
    LET tile == grid_get_tile(g, new_row, new_col) IN
    IF tile = TILE_ROCK
    THEN [ret |-> FALSE, enemy |-> e, grid |-> g]
    ELSE IF ~enemy_can_walk(tile)
    THEN [ret |-> FALSE, enemy |-> e, grid |-> g]
    ELSE [ret |-> TRUE,
          enemy |-> [e EXCEPT !.col = new_col, !.row = new_row,
                              !.facing = dir,
                              !.is_ghosting = (tile = TILE_DIRT),
                              !.move_slowdown = enemy_slowdown(tile)],
          grid |-> g]

\* one record of the history of attempts: the direction, the enemy's cell at
\* the call, the value returned, and the Enemy struct at the call and at the
\* return
Try(e, dir, r) ==
  [dir |-> dir, col |-> e.col, row |-> e.row, ret |-> r.ret,
   before |-> e, after |-> r.enemy]

\* variant: preferred not left out of the array
alternatives_of_all(preferred) == <<DIR_UP, DIR_DOWN, DIR_LEFT, DIR_RIGHT>>

\* the alternatives array: the directions other than preferred, in order
alternatives_of(preferred) ==
  SelectSeq(<<DIR_UP, DIR_DOWN, DIR_LEFT, DIR_RIGHT>>,
            LAMBDA d : d # preferred)

\* variant: the enemy stops only if the decremented slowdown is still > 0
cannot_move_yet_after(e) == e.move_slowdown > 1

\* "cannot move yet": the test made before the decrement
cannot_move_yet(e) == e.move_slowdown > 0

\* variant: the slowdown update made before the test of is_alive
enemy_update_dead_cools(e, p, g, roll, rand_dir, pick) ==
  IF cannot_move_yet(e)
  THEN [enemy |-> [e EXCEPT !.move_slowdown = @ - 1],
        player |-> p, grid |-> g, preferred |-> NoDir, tries |-> <<>>]
  ELSE IF ~e.is_alive
  THEN [enemy |-> e, player |-> p, grid |-> g, preferred |-> NoDir,
        tries |-> <<>>]
  ELSE
    LET preferred == get_dir_to(e.col, e.row, p.col, p.row)
        deviate == roll < 30
        t1 == enemy_try_move(e, rand_dir, g)
        log1 == IF deviate THEN <<Try(e, rand_dir, t1)>> ELSE <<>>
        e1 == IF deviate THEN t1.enemy ELSE e
        g1 == IF deviate THEN t1.grid ELSE g
    IN
    IF deviate /\ t1.ret
    THEN [enemy |-> e1, player |-> p, grid |-> g1, preferred |-> preferred,
          tries |-> log1]
    ELSE
      LET t2 == enemy_try_move(e1, preferred, g1)
          log2 == Append(log1, Try(e1, preferred, t2))
      IN
      IF t2.ret
      THEN [enemy |-> t2.enemy, player |-> p, grid |-> t2.grid,
            preferred |-> preferred, tries |-> log2]
      ELSE
        LET alternatives == alternatives_of(preferred)
            alt_count == Len(alternatives)
        IN
        IF alt_count > 0
        THEN LET choice == pick % alt_count
                 t3 == enemy_try_move(t2.enemy, alternatives[choice + 1],
                                      t2.grid)
             IN [enemy |-> t3.enemy, player |-> p, grid |-> t3.grid,
                 preferred |-> preferred,
                 tries |-> Append(log2,
                                  Try(t2.enemy, alternatives[choice + 1], t3))]
        ELSE [enemy |-> t2.enemy, player |-> p, grid |-> t2.grid,
              preferred |-> preferred, tries |-> log2]

\* result of enemy_update: the enemy, the player and the grid (all reached
\* through pointers) after it, the local preferred (NoDir where it is not
\* computed) and the attempts it made; roll is
\* rand() % 100, rand_dir is rand() % 4, pick is the rand() of the
\* alternative choice
enemy_update(e, p, g, roll, rand_dir, pick) ==
  IF ~e.is_alive
  THEN [enemy |-> e, player |-> p, grid |-> g, preferred |-> NoDir,
        tries |-> <<>>]
  ELSE IF cannot_move_yet(e)
  THEN [enemy |-> [e EXCEPT !.move_slowdown = @ - 1],
        player |-> p, grid |-> g, preferred |-> NoDir, tries |-> <<>>]
  ELSE
    LET preferred == get_dir_to(e.col, e.row, p.col, p.row)
        deviate == roll < 30
        t1 == enemy_try_move(e, rand_dir, g)
        log1 == IF deviate THEN <<Try(e, rand_dir, t1)>> ELSE <<>>
        e1 == IF deviate THEN t1.enemy ELSE e
        g1 == IF deviate THEN t1.grid ELSE g
    IN
    IF deviate /\ t1.ret
    THEN [enemy |-> e1, player |-> p, grid |-> g1, preferred |-> preferred,
          tries |-> log1]
    ELSE
      LET t2 == enemy_try_move(e1, preferred, g1)
          log2 == Append(log1, Try(e1, preferred, t2))
      IN
      IF t2.ret
      THEN [enemy |-> t2.enemy, player |-> p, grid |-> t2.grid,
            preferred |-> preferred, tries |-> log2]
      ELSE
        LET alternatives == alternatives_of(preferred)
            alt_count == Len(alternatives)
        IN
        IF alt_count > 0
        THEN LET choice == pick % alt_count
                 t3 == enemy_try_move(t2.enemy, alternatives[choice + 1],
                                      t2.grid)
             IN [enemy |-> t3.enemy, player |-> p, grid |-> t3.grid,
                 preferred |-> preferred,
                 tries |-> Append(log2,
                                  Try(t2.enemy, alternatives[choice + 1], t3))]
        ELSE [enemy |-> t2.enemy, player |-> p, grid |-> t2.grid,
              preferred |-> preferred, tries |-> log2]

\* variant: the player's is_alive not tested
enemy_collides_with_player_dead(e, p) ==
  e.is_alive /\ e.col = p.col /\ e.row = p.row

\* variant: the enemy's is_alive not tested
enemy_collides_with_player_any(e, p) ==
  p.is_alive /\ e.col = p.col /\ e.row = p.row

enemy_collides_with_player(e, p) ==
  e.is_alive /\ p.is_alive /\ e.col = p.col /\ e.row = p.row

(***************************************************************************)
(* main.c: the session and its tick loop                                   *)
(***************************************************************************)

\* history of the last operation: its name, the direction requested (for an
\* enemy update, the preferred direction it computed), the
\* value returned, the tile read at the candidate cell and, for an enemy
\* update, the attempts made
Last(op, dir, ret, tile, tries) ==
  [op |-> op, dir |-> dir, ret |-> ret, tile |-> tile, tries |-> tries]

\* history of an enemy's last successful move: the tick it happened in and
\* the slowdown it set; Never before the first one
Never == [at |-> NoDir, c |-> 0]

\* main up to the game loop, for an enemy spawned at cell sp and a user who
\* quits after at most n frames
Setup(sp, n) ==
  /\ \E g0 \in UninitGrids : grid = grid_init(g0)
  /\ player = player_init(10, 2)
  /\ enemies = <<enemy_init(ENEMY_POOKA, sp[1], sp[2])>>
  /\ running = TRUE
  /\ pc = "events"
  /\ i = 0
  /\ nevents = 0
  /\ tick = 0
  /\ frames = n
  /\ owed = 0
  /\ acted = <<Never>>
  /\ last = Last("init", NoDir, FALSE, NoTile, <<>>)

\* the session set up by main
Init == Setup(<<20, 5>>, MaxTicks)

\* a session of the same level with the enemy spawned on one of EnemySpawns
InitSpawn == \E sp \in EnemySpawns : Setup(sp, MaxSpawnTicks)

\* a session of the same level with the enemy spawned on (10,6), the rock
\* between it and the player
InitUnderRock == Setup(<<10, 6>>, MaxUnderRockTicks)

\* a session of the same level with the enemy spawned on (10,3), the dirt
\* cell under the player's spawn
InitAdjacent == Setup(<<10, 3>>, MaxAdjacentTicks)

\* the session with the enemy spawned on (10,3), for the progress of the loop
InitLive == Setup(<<10, 3>>, MaxLiveTicks)

\* the session with the enemy spawned on (10,3), played for more frames
InitLong == Setup(<<10, 3>>, MaxLongTicks)

\* the level of main with the actors placed for the adjacent-enemy test: the
\* player initialised at (10,4), one enemy initialised at (10,5)
InitScenario5 ==
  /\ \E g0 \in UninitGrids : grid = grid_init(g0)
  /\ player = player_init(10, 4)
  /\ enemies = <<enemy_init(ENEMY_POOKA, 10, 5)>>
  /\ running = TRUE
  /\ pc = "events"
  /\ i = 0
  /\ nevents = 0
  /\ tick = 0
  /\ frames = MaxScenarioTicks
  /\ owed = 0
  /\ acted = <<Never>>
  /\ last = Last("init", NoDir, FALSE, NoTile, <<>>)

\* the level of main with two enemies in the array: a live one on (10,4) and
\* one on the tunnel cell (11,2) whose is_alive is false, with any slowdown
InitScenario6 ==
  /\ \E g0 \in UninitGrids : grid = grid_init(g0)
  /\ player = player_init(10, 2)
  /\ \E s \in DeadSlowdowns :
       enemies = <<enemy_init(ENEMY_POOKA, 10, 4),
                   [enemy_init(ENEMY_FYGAR, 11, 2)
                      EXCEPT !.is_alive = FALSE, !.move_slowdown = s]>>
  /\ running = TRUE
  /\ pc = "events"
  /\ i = 0
  /\ nevents = 0
  /\ tick = 0
  /\ frames = MaxDeadTicks
  /\ owed = 0
  /\ acted = <<Never, Never>>
  /\ last = Last("init", NoDir, FALSE, NoTile, <<>>)

enemy_count == Len(enemies)

\* SDL_EVENT_KEY_DOWN with an arrow key: one call of player_move
KeyDown(dir) ==
  /\ pc = "events"
  /\ nevents < MaxEvents
  /\ LET r == player_move(player, dir, grid)
         nc == new_col_of(player.col, dir)
         nr == new_row_of(player.row, dir)
     IN /\ player' = r.player
        /\ grid' = r.grid
        /\ owed' = IF r.ret THEN r.player.move_slowdown ELSE owed
        /\ last' = Last("player_move", dir, r.ret,
                        IF out_of_grid(nc, nr) THEN NoTile ELSE grid[nr][nc],
                        <<>>)
  /\ nevents' = nevents + 1
  /\ UNCHANGED <<enemies, running, pc, i, tick, frames, acted>>

\* SDL_EVENT_QUIT or the ESC key; the user quits in frame number frames
Quit ==
  /\ pc = "events"
  /\ running
  /\ tick = frames
  /\ running' = FALSE
  /\ last' = Last("quit", NoDir, FALSE, NoTile, <<>>)
  /\ UNCHANGED <<grid, player, enemies, pc, i, nevents, tick, frames, owed, acted>>

\* the event queue is empty: player_update, then the enemy loop starts
UpdatePlayer ==
  /\ pc = "events"
  /\ tick < frames \/ ~running
  /\ player' = player_update(player)
  /\ owed' = IF owed > 0 THEN owed - 1 ELSE 0
  /\ pc' = "enemies"
  /\ i' = 0
  /\ nevents' = 0
  /\ last' = Last("player_update", NoDir, FALSE, NoTile, <<>>)
  /\ UNCHANGED <<grid, enemies, running, tick, frames, acted>>

\* variant: the enemy loop running from the last enemy down to the first
UpdateEnemy_reversed ==
  /\ pc = "enemies"
  /\ i < enemy_count
  /\ \E roll \in Rolls, rand_dir \in Dirs, pick \in Picks :
       LET r == enemy_update(enemies[enemy_count - i], player, grid, roll, rand_dir, pick)
       IN /\ enemies' = [enemies EXCEPT ![enemy_count - i] = r.enemy]
          /\ grid' = r.grid
          /\ player' = IF enemy_collides_with_player(r.enemy, r.player)
                       THEN [r.player EXCEPT !.is_alive = FALSE]
                       ELSE r.player
          /\ last' = Last("enemy_update", r.preferred,
                          enemy_collides_with_player(r.enemy, r.player),
                          NoTile, r.tries)
          /\ acted' = IF Len(r.tries) > 0 /\ r.tries[Len(r.tries)].ret
                      THEN [acted EXCEPT
                              ![enemy_count - i] = [at |-> tick,
                                          c |-> r.enemy.move_slowdown]]
                      ELSE acted
  /\ i' = i + 1
  /\ UNCHANGED <<running, pc, nevents, tick, frames, owed>>

\* variant: the collision check made before enemy_update
UpdateEnemy_check_first ==
  /\ pc = "enemies"
  /\ i < enemy_count
  /\ \E roll \in Rolls, rand_dir \in Dirs, pick \in Picks :
       LET r == enemy_update(enemies[i + 1], player, grid, roll, rand_dir, pick)
           hit == enemy_collides_with_player(enemies[i + 1], player)
       IN /\ enemies' = [enemies EXCEPT ![i + 1] = r.enemy]
          /\ grid' = r.grid
          /\ player' = IF hit
                       THEN [r.player EXCEPT !.is_alive = FALSE]
                       ELSE r.player
          /\ last' = Last("enemy_update", r.preferred, hit, NoTile, r.tries)
          /\ acted' = IF Len(r.tries) > 0 /\ r.tries[Len(r.tries)].ret
                      THEN [acted EXCEPT
                              ![i + 1] = [at |-> tick,
                                          c |-> r.enemy.move_slowdown]]
                      ELSE acted
  /\ i' = i + 1
  /\ UNCHANGED <<running, pc, nevents, tick, frames, owed>>

\* one iteration of the enemy loop: enemy_update, then the collision check
UpdateEnemy ==
  /\ pc = "enemies"
  /\ i < enemy_count
  /\ \E roll \in Rolls, rand_dir \in Dirs, pick \in Picks :
       LET r == enemy_update(enemies[i + 1], player, grid, roll, rand_dir, pick)
       IN /\ enemies' = [enemies EXCEPT ![i + 1] = r.enemy]
          /\ grid' = r.grid
          /\ player' = IF enemy_collides_with_player(r.enemy, r.player)
                       THEN [r.player EXCEPT !.is_alive = FALSE]
                       ELSE r.player
          /\ last' = Last("enemy_update", r.preferred,
                          enemy_collides_with_player(r.enemy, r.player),
                          NoTile, r.tries)
          /\ acted' = IF Len(r.tries) > 0 /\ r.tries[Len(r.tries)].ret
                      THEN [acted EXCEPT
                              ![i + 1] = [at |-> tick,
                                          c |-> r.enemy.move_slowdown]]
                      ELSE acted
  /\ i' = i + 1
  /\ UNCHANGED <<running, pc, nevents, tick, frames, owed>>

\* variant: the while loop also left when the player is dead
Render_until_death ==
  /\ pc = "enemies"
  /\ i >= enemy_count
  /\ pc' = IF running /\ player.is_alive THEN "events" ELSE "done"
  /\ tick' = tick + 1
  /\ last' = Last("render", NoDir, FALSE, NoTile, <<>>)
  /\ UNCHANGED <<grid, player, enemies, running, i, nevents, frames, owed, acted>>

\* the enemy loop is over: render, delay, and the test of the while loop
Render ==
  /\ pc = "enemies"
  /\ i >= enemy_count
  /\ pc' = IF running THEN "events" ELSE "done"
  /\ tick' = tick + 1
  /\ last' = Last("render", NoDir, FALSE, NoTile, <<>>)
  /\ UNCHANGED <<grid, player, enemies, running, i, nevents, frames, owed, acted>>

(***************************************************************************)
(* grid.h: a session of calls of the grid module on one array              *)
(***************************************************************************)
\* history of the last call: its name, its arguments and the value returned
Call(op, row, col, type, ret) ==
  [op |-> op, row |-> row, col |-> col, type |-> type, ret |-> ret]

\* the array is declared and not yet initialised; no actor exists and the
\* game loop is not running; nevents counts the calls
InitGrid ==
  /\ grid \in UninitGrids
  /\ player = player_init(10, 2)
  /\ enemies = <<>>
  /\ running = FALSE
  /\ pc = "grid"
  /\ i = 0
  /\ nevents = 0
  /\ tick = 0
  /\ frames = 0
  /\ owed = 0
  /\ acted = <<>>
  /\ last = Call("declare", 0, 0, NoTile, NoTile)

GridInit ==
  /\ pc = "grid"
  /\ nevents < MaxCalls
  /\ grid' = grid_init(grid)
  /\ last' = Call("grid_init", 0, 0, NoTile, NoTile)
  /\ nevents' = nevents + 1
  /\ UNCHANGED <<player, enemies, running, pc, i, tick, frames, owed, acted>>

GridGetTile(row, col) ==
  /\ pc = "grid"
  /\ nevents < MaxCalls
  /\ last' = Call("grid_get_tile", row, col, NoTile,
                  grid_get_tile(grid, row, col))
  /\ nevents' = nevents + 1
  /\ UNCHANGED <<grid, player, enemies, running, pc, i, tick, frames, owed,
                 acted>>

GridSetTile(row, col, type) ==
  /\ pc = "grid"
  /\ nevents < MaxCalls
  /\ grid' = grid_set_tile(grid, row, col, type)
  /\ last' = Call("grid_set_tile", row, col, type, NoTile)
  /\ nevents' = nevents + 1
  /\ UNCHANGED <<player, enemies, running, pc, i, tick, frames, owed, acted>>

NextGrid ==
  \/ GridInit
  \/ \E row \in ProbeRows, col \in ProbeCols : GridGetTile(row, col)
  \/ \E row \in ProbeRows, col \in ProbeCols, type \in StoredTiles :
       GridSetTile(row, col, type)

SpecGrid == InitGrid /\ [][NextGrid]_vars

Next ==
  \/ \E dir \in Dirs : KeyDown(dir)
  \/ Quit
  \/ UpdatePlayer
  \/ UpdateEnemy
  \/ Render

Spec == Init /\ [][Next]_vars

SpecSpawn == InitSpawn /\ [][Next]_vars

SpecUnderRock == InitUnderRock /\ [][Next]_vars

SpecAdjacent == InitAdjacent /\ [][Next]_vars

SpecLong == InitLong /\ [][Next]_vars

\* the body of the game loop runs on by itself: once the event queue is
\* empty player_update is called, then every iteration of the enemy loop,
\* then the rendering; key events and the quit event are the user's
LoopFairness ==
  /\ WF_vars(UpdatePlayer)
  /\ WF_vars(UpdateEnemy)
  /\ WF_vars(Render)

SpecLive == InitLive /\ [][Next]_vars /\ LoopFairness

(***************************************************************************)
(* main.c: a session in which the user sends no event, followed for as long *)
(* as the enemy is on the MaxBand rightmost columns or beyond them          *)
(***************************************************************************)
MaxBand == 3

InBand == \A k \in 1 .. Len(enemies) : enemies[k].col >= GRID_WIDTH - MaxBand

\* the enemy is spawned on one of EdgeSpawns; the frames are not counted
InitIdle == \E sp \in EdgeSpawns : Setup(sp, 1)

\* the enemy loop is over: render and delay; running is still true
RenderIdle ==
  /\ pc = "enemies"
  /\ i >= enemy_count
  /\ running
  /\ pc' = "events"
  /\ last' = Last("render", NoDir, FALSE, NoTile, <<>>)
  /\ UNCHANGED <<grid, player, enemies, running, i, nevents, tick, frames,
                 owed, acted>>

NextIdle ==
  \/ InBand /\ UpdatePlayer
  \/ InBand /\ UpdateEnemy
  \/ InBand /\ RenderIdle

\* the last operation was an enemy update whose final attempt succeeded
EnemyMoved(l) ==
  l.op = "enemy_update" /\ Len(l.tries) > 0 /\ l.tries[Len(l.tries)].ret

\* one iteration of the enemy loop in which the enemy moves
EnemyMoves == UpdateEnemy /\ EnemyMoved(last')

\* the loop runs on by itself, and rand() is fair: an enemy that could move
\* in infinitely many of its updates does move in one of them
SpecIdle ==
  /\ InitIdle
  /\ [][NextIdle]_vars
  /\ WF_vars(NextIdle)
  /\ SF_vars(EnemyMoves)

SpecScenario5 == InitScenario5 /\ [][Next]_vars

SpecScenario6 == InitScenario6 /\ [][Next]_vars

(***************************************************************************)
(* Vocabulary of the properties                                            *)
(***************************************************************************)
\* unit displacement of a direction
DCol(d) == IF d = DIR_LEFT THEN -1 ELSE IF d = DIR_RIGHT THEN 1 ELSE 0
DRow(d) == IF d = DIR_UP THEN -1 ELSE IF d = DIR_DOWN THEN 1 ELSE 0

InGrid(c, r) == c \in Cols /\ r \in Rows

\* this step is a call player_move(&player, d, grid)
MoveStep(d) ==
  /\ pc = "events"
  /\ nevents' = nevents + 1
  /\ last'.op = "player_move"
  /\ last'.dir = d

\* this step is the call of player_update
PlayerUpdateStep == pc = "events" /\ pc' = "enemies" /\ last'.op = "player_update"

\* this step is one iteration of the enemy loop, on enemies[i]
EnemyStep == pc = "enemies" /\ i' = i + 1 /\ last'.op = "enemy_update"

RockCells(g) == { rc \in Rows \X Cols : g[rc[1]][rc[2]] = TILE_ROCK }

(***************************************************************************)
(* Player controller                                                       *)
(***************************************************************************)
\* C1: a player_move with cooldown 0 in direction Down, Left or Right into an
\* in-bounds Dirt cell returns true, turns exactly that cell into Tunnel,
\* adds exactly 1 to dirt_dug, puts the player on that cell facing the
\* requested direction, and sets move_slowdown to 8.
C1_DigMove ==
  [][\A d \in {DIR_DOWN, DIR_LEFT, DIR_RIGHT} :
       LET c == player.col + DCol(d)
           r == player.row + DRow(d)
       IN (MoveStep(d) /\ player.move_slowdown = 0 /\ InGrid(c, r)
             /\ grid[r][c] = TILE_DIRT)
          => /\ last'.ret = TRUE
             /\ grid' = [grid EXCEPT ![r][c] = TILE_TUNNEL]
             /\ player' = [player EXCEPT !.col = c, !.row = r, !.facing = d,
                                         !.dirt_dug = @ + 1,
                                         !.move_slowdown = 8]]_vars

\* the first dig of the session: Down from the spawn cell into (row 3, col 10)
C1_Witness ==
  /\ last.op = "player_move" /\ last.dir = DIR_DOWN /\ last.ret
  /\ last.tile = TILE_DIRT
  /\ player.col = 10 /\ player.row = 3
  /\ grid[3][10] = TILE_TUNNEL
  /\ player.dirt_dug = 1
  /\ player.move_slowdown = 8

\* C2: upward-dig rule. A player_move(Up) when the cell directly above the
\* player is Dirt returns false and leaves grid, dirt_dug, position, facing
\* and cooldown unchanged; a player_move(Up) with cooldown 0 into an
\* in-bounds Tunnel cell returns true and moves the player there.
C2_UpwardDigRule ==
  [][LET c == player.col
         r == player.row - 1
     IN (MoveStep(DIR_UP) /\ InGrid(c, r))
        => /\ (grid[r][c] = TILE_DIRT)
                => (last'.ret = FALSE /\ grid' = grid /\ player' = player)
           /\ (grid[r][c] = TILE_TUNNEL /\ player.move_slowdown = 0)
                => (last'.ret = TRUE /\ player'.col = c /\ player'.row = r)]_vars

\* an Up attempt with cooldown 0 under a Dirt cell, refused
C2_Witness ==
  /\ last.op = "player_move" /\ last.dir = DIR_UP /\ ~last.ret
  /\ last.tile = TILE_DIRT
  /\ player.move_slowdown = 0
  /\ player.row > 2
  /\ player.dirt_dug > 0

\* C3: a player_move that returns false (cooldown > 0, candidate cell out of
\* bounds, Up into Dirt, or Rock) leaves grid, dirt_dug, position, facing and
\* move_slowdown unchanged; the grid and dirt_dug change only in calls that
\* return true.
C3_FailedMoveNoEffect ==
  [][/\ \A d \in Dirs :
          (MoveStep(d) /\ last'.ret = FALSE) => (grid' = grid /\ player' = player)
     /\ (grid' # grid \/ player'.dirt_dug # player.dirt_dug)
          => (\E d \in Dirs : MoveStep(d) /\ last'.ret = TRUE)]_vars

\* a move with cooldown 0 refused by the rock
C3_Witness ==
  /\ last.op = "player_move" /\ ~last.ret
  /\ last.tile = TILE_ROCK
  /\ player.move_slowdown = 0
  /\ player.dirt_dug = 2

\* C4: a player_move with cooldown 0 into an in-bounds Tunnel or Empty cell,
\* in any direction, returns true, moves the player there, sets facing to the
\* direction and move_slowdown to 3, and leaves dirt_dug and the grid
\* unchanged.
C4_OpenMove ==
  [][\A d \in Dirs :
       LET c == player.col + DCol(d)
           r == player.row + DRow(d)
       IN (MoveStep(d) /\ player.move_slowdown = 0 /\ InGrid(c, r)
             /\ grid[r][c] \in {TILE_TUNNEL, TILE_EMPTY})
          => /\ last'.ret = TRUE
             /\ grid' = grid
             /\ player' = [player EXCEPT !.col = c, !.row = r, !.facing = d,
                                         !.move_slowdown = 3]]_vars

\* after a dig, a move back up into the tunnel row
C4_Witness ==
  /\ last.op = "player_move" /\ last.dir = DIR_UP /\ last.ret
  /\ last.tile = TILE_TUNNEL
  /\ player.row = 2
  /\ player.dirt_dug = 1
  /\ player.move_slowdown = 3

\* C5: Rock is never traversable and never converted. The set of Rock cells
\* is the one grid_init laid out and no step changes it, and every
\* player_move or enemy_try_move whose candidate cell is Rock returns false
\* without moving the actor.
C5_RockBlocks ==
  /\ RockCells(grid) = RockCells(grid_init(grid))
  /\ [][/\ (grid' # grid) => (RockCells(grid') = RockCells(grid))
        /\ \A d \in Dirs :
             LET c == player.col + DCol(d)
                 r == player.row + DRow(d)
             IN (MoveStep(d) /\ InGrid(c, r) /\ grid[r][c] = TILE_ROCK)
                => /\ last'.ret = FALSE
                   /\ player'.col = player.col
                   /\ player'.row = player.row
        /\ EnemyStep
             => \A k \in 1 .. Len(last'.tries) :
                  LET t == last'.tries[k]
                      c == t.col + DCol(t.dir)
                      r == t.row + DRow(t.dir)
                      \* the enemy's cell when the attempt returns
                      after == IF k < Len(last'.tries)
                               THEN <<last'.tries[k + 1].col,
                                      last'.tries[k + 1].row>>
                               ELSE <<enemies'[i + 1].col, enemies'[i + 1].row>>
                  IN (InGrid(c, r) /\ grid[r][c] = TILE_ROCK)
                     => (t.ret = FALSE /\ after = <<t.col, t.row>>)]_vars

\* an enemy beside the rock whose attempt towards it was refused
C5_Witness ==
  /\ last.op = "enemy_update"
  /\ \E k \in 1 .. Len(last.tries) :
       LET t == last.tries[k]
           c == t.col + DCol(t.dir)
           r == t.row + DRow(t.dir)
       IN InGrid(c, r) /\ grid[r][c] = TILE_ROCK /\ ~t.ret

\* C6: cooldown gate of the player. After a successful move that set
\* move_slowdown to c (8 after a dig, 3 after a tunnel or empty move), every
\* player_move fails until player_update has been called c times, and an
\* otherwise valid attempt made after the c-th update succeeds.  (owed is c
\* minus the number of player_update calls since that move, at least 0.)
C6_CooldownGate ==
  [][\A d \in Dirs :
       LET c == player.col + DCol(d)
           r == player.row + DRow(d)
       IN MoveStep(d)
          => /\ (owed > 0) => (last'.ret = FALSE)
             /\ (owed = 0 /\ InGrid(c, r) /\ grid[r][c] # TILE_ROCK
                   /\ ~(grid[r][c] = TILE_DIRT /\ d = DIR_UP))
                  => (last'.ret = TRUE)
             /\ (last'.ret = TRUE)
                  => (owed' = IF grid[r][c] = TILE_DIRT THEN 8 ELSE 3)]_vars

\* the second dig of the session, in the frame that follows the eighth update
C6_Witness ==
  /\ last.op = "player_move" /\ last.ret
  /\ player.dirt_dug = 2
  /\ tick = 8

\* C7: player_update subtracts exactly 1 from move_slowdown when it is > 0
\* and leaves it at 0 otherwise; it never increases the cooldown, never makes
\* it negative, and changes no other player field and no grid cell.
C7_PlayerUpdate ==
  [][PlayerUpdateStep
       => /\ player' = [player EXCEPT
                          !.move_slowdown = IF @ > 0 THEN @ - 1 ELSE 0]
          /\ player'.move_slowdown <= player.move_slowdown
          /\ player'.move_slowdown >= 0
          /\ grid' = grid]_vars

\* the update of the frame in which the player dug
C7_Witness ==
  /\ last.op = "player_update"
  /\ player.move_slowdown = 7
  /\ player.dirt_dug = 1

\* C8: after a successful move the actor's cooldown is one of its two terrain
\* constants: the player's is 8 iff the move converted a Dirt cell and 3
\* otherwise; an enemy's is 20 iff the cell entered is Dirt and 10 otherwise.
C8_TerrainCooldown ==
  [][/\ \A d \in Dirs :
          (MoveStep(d) /\ last'.ret = TRUE)
          => LET converted ==
                   /\ grid[player'.row][player'.col] = TILE_DIRT
                   /\ grid'[player'.row][player'.col] = TILE_TUNNEL
             IN player'.move_slowdown = IF converted THEN 8 ELSE 3
     /\ (EnemyStep /\ EnemyMoved(last'))
          => LET e == enemies'[i + 1]
             IN e.move_slowdown = IF grid[e.row][e.col] = TILE_DIRT
                                  THEN 20 ELSE 10]_vars

\* an enemy that entered the tunnel cell the player had just dug
C8_Witness ==
  /\ EnemyMoved(last)
  /\ enemies[1].move_slowdown = 10
  /\ grid[enemies[1].row][enemies[1].col] = TILE_TUNNEL
  /\ player.dirt_dug = 1

\* C9: dig idempotence. A cell that has become Tunnel is Tunnel in every
\* later state, and no later player move into it or enemy move through it
\* converts a tile or increments dirt_dug.
C9_DigIdempotence ==
  [][/\ (grid' # grid)
          => \A r \in Rows, c \in Cols :
               (grid[r][c] = TILE_TUNNEL) => (grid'[r][c] = TILE_TUNNEL)
     /\ \A d \in Dirs :
          LET c == player.col + DCol(d)
              r == player.row + DRow(d)
          IN (MoveStep(d) /\ InGrid(c, r) /\ grid[r][c] = TILE_TUNNEL)
             => (grid' = grid /\ player'.dirt_dug = player.dirt_dug)
     /\ EnemyStep => (grid' = grid /\ player'.dirt_dug = player.dirt_dug)]_vars

\* the player back on the cell it dug under the tunnel row
C9_Witness ==
  /\ last.op = "player_move" /\ last.ret
  /\ last.tile = TILE_TUNNEL
  /\ player.row = 3
  /\ player.dirt_dug = 1
  /\ grid[player.row][player.col] = TILE_TUNNEL

\* C10: the grid is mutated only by digging. Every step that changes the
\* grid is a successful player_move, and it changes exactly one cell, from
\* Dirt to Tunnel, which is the cell the player then occupies; Empty, Tunnel
\* and Rock cells never change.
C10_OnlyDiggingMutates ==
  [][/\ (grid' # grid)
          => /\ \E d \in Dirs : MoveStep(d) /\ last'.ret = TRUE
             /\ InGrid(player'.col, player'.row)
             /\ grid[player'.row][player'.col] = TILE_DIRT
             /\ grid' = [grid EXCEPT ![player'.row][player'.col] = TILE_TUNNEL]
     /\ (grid' # grid)
          => \A r \in Rows, c \in Cols :
               (grid[r][c] # TILE_DIRT) => (grid'[r][c] = grid[r][c])]_vars

\* a second dig, sideways, while the enemy stands in the dirt
C10_Witness ==
  /\ last.op = "player_move" /\ last.ret
  /\ last.dir \in {DIR_LEFT, DIR_RIGHT}
  /\ last.tile = TILE_DIRT
  /\ player.dirt_dug = 2
  /\ enemies[1].is_ghosting

(***************************************************************************)
(* Enemy controller                                                        *)
(***************************************************************************)
\* C11: enemy_update, with every enemy_try_move it performs, leaves every
\* grid cell and every Player field unchanged (is_alive is cleared only by
\* the collision check of main that follows it); an enemy passing through
\* Dirt does not convert it.
C11_EnemyUpdateFrame ==
  [][EnemyStep
       => /\ grid' = grid
          /\ player' = [player EXCEPT
                          !.is_alive = IF last'.ret THEN FALSE ELSE @]
          /\ last'.ret = enemy_collides_with_player(enemies'[i + 1], player)
          /\ EnemyMoved(last')
               => (grid'[enemies'[i + 1].row][enemies'[i + 1].col]
                     = grid[enemies'[i + 1].row][enemies'[i + 1].col])]_vars

\* an enemy that has just entered a Dirt cell, which is still Dirt
C11_Witness ==
  /\ EnemyMoved(last)
  /\ InGrid(enemies[1].col, enemies[1].row)
  /\ grid[enemies[1].row][enemies[1].col] = TILE_DIRT
  /\ enemies[1].is_ghosting
  /\ player.is_alive

\* C12 as stated: an alive enemy with cooldown > 0 stops for this tick only
\* if the decremented cooldown is > 0; when the decrement brings the
\* cooldown to 0 it attempts a move in the same tick.
C12_ActsWhenReachingZero ==
  [][(EnemyStep /\ enemies[i + 1].is_alive /\ enemies[i + 1].move_slowdown > 0)
       => ((Len(last'.tries) = 0) <=> (enemies[i + 1].move_slowdown - 1 > 0))]_vars

\* C12 amended: an alive enemy that enters enemy_update with cooldown > 0 is
\* decremented and stops for this tick, also when the decrement brings the
\* cooldown to 0; it attempts a move exactly in the ticks it enters with
\* cooldown 0, so that after a successful move that set the cooldown to c
\* (10 on tunnel or empty, 20 on dirt) its next attempt is c + 1 ticks later.
C12_ActsAfterReachingZero ==
  [][(EnemyStep /\ enemies[i + 1].is_alive)
       => LET e == enemies[i + 1]
              a == acted[i + 1]
          IN /\ (e.move_slowdown > 0)
                  => /\ Len(last'.tries) = 0
                     /\ enemies'[i + 1] = [e EXCEPT !.move_slowdown = @ - 1]
             /\ (e.move_slowdown = 0) => (Len(last'.tries) > 0)
             /\ (a # Never)
                  => /\ a.c \in {10, 20}
                     /\ (tick < a.at + a.c + 1) => (Len(last'.tries) = 0)
                     /\ (tick = a.at + a.c + 1) => (Len(last'.tries) > 0)]_vars

\* the enemy's second move, 11 ticks after it entered a tunnel cell
C12_Witness ==
  /\ EnemyMoved(last)
  /\ tick = 11
  /\ acted[1] = [at |-> 11, c |-> enemies[1].move_slowdown]

\* C13: the ghosting flag tracks the tile under the enemy. In every
\* reachable state, enemy.is_ghosting is true exactly when the tile at the
\* enemy's position is Dirt (also after enemy_init, and after the player digs
\* the cell the enemy stands on).
C13_GhostingTracksTile ==
  \A k \in 1 .. Len(enemies) :
    enemies[k].is_ghosting
      <=> (grid_get_tile(grid, enemies[k].row, enemies[k].col) = TILE_DIRT)

\* C14: enemy_try_move. It fails exactly when the candidate cell is out of
\* bounds or Rock. On success the enemy's position is the candidate cell,
\* facing is the direction, is_ghosting is true iff the cell entered is Dirt
\* and move_slowdown is 20 for Dirt, else 10; on failure position, facing,
\* is_ghosting and move_slowdown are unchanged.
C14_EnemyTryMove ==
  [][EnemyStep
       => /\ \A k \in 1 .. Len(last'.tries) :
               LET t == last'.tries[k]
                   c == t.col + DCol(t.dir)
                   r == t.row + DRow(t.dir)
               IN /\ t.col = t.before.col /\ t.row = t.before.row
                  /\ t.ret <=> (InGrid(c, r) /\ grid[r][c] # TILE_ROCK)
                  /\ t.ret
                       => t.after =
                            [t.before EXCEPT
                               !.col = c, !.row = r, !.facing = t.dir,
                               !.is_ghosting = (grid[r][c] = TILE_DIRT),
                               !.move_slowdown =
                                  IF grid[r][c] = TILE_DIRT THEN 20 ELSE 10]
                  /\ ~t.ret => (t.after = t.before)
          /\ Len(last'.tries) > 0
               => enemies'[i + 1] = last'.tries[Len(last'.tries)].after]_vars

\* an update whose first attempt was refused and whose second one entered a
\* tunnel cell
C14_Witness ==
  /\ EnemyMoved(last)
  /\ Len(last.tries) = 2
  /\ ~last.tries[1].ret
  /\ ~enemies[1].is_ghosting
  /\ enemies[1].move_slowdown = 10
  /\ enemies[1].facing = last.tries[2].dir

AtScenario5 ==
  /\ pc = "enemies" /\ i < Len(enemies)
  /\ enemies[i + 1].is_alive
  /\ enemies[i + 1].col = 10 /\ enemies[i + 1].row = 5
  /\ enemies[i + 1].move_slowdown = 0
  /\ player.col = 10 /\ player.row = 4

\* C16 as stated: with an enemy at (10,5), the player at (10,4), slowdown 0
\* and no random deviation, enemy_update computes preferred direction Left
\* and, if (9,5) is traversable, moves the enemy to (9,5).
C16_Scenario5Left ==
  [][(EnemyStep /\ AtScenario5)
       => /\ last'.dir = DIR_LEFT
          /\ (last'.tries[1].dir = last'.dir /\ grid[5][9] # TILE_ROCK)
               => (enemies'[i + 1].col = 9 /\ enemies'[i + 1].row = 5)]_vars

\* C16, amended: in that position dx = 0 and dy = -1, so the preferred
\* direction is Up; the first attempt made in the preferred direction enters
\* the player's cell (10,4), which is traversable, and the collision test
\* that follows the update is true.
C16_Scenario5Up ==
  [][(EnemyStep /\ AtScenario5)
       => /\ last'.dir = DIR_UP
          /\ grid[4][10] # TILE_ROCK
          /\ (last'.tries[1].dir = last'.dir)
               => /\ Len(last'.tries) = 1
                  /\ enemies'[i + 1].col = 10 /\ enemies'[i + 1].row = 4
                  /\ player.is_alive => (last'.ret /\ ~player'.is_alive)
          /\ \A roll \in {r \in Rolls : r >= 30}, rand_dir \in Dirs, pick \in Picks :
               LET u == enemy_update(enemies[i + 1], player, grid, roll, rand_dir, pick)
               IN u.preferred = DIR_UP /\ u.enemy.col = 10 /\ u.enemy.row = 4]_vars

\* the first update of the enemy placed at (10,5) has moved it up onto the
\* player at (10,4)
C16_Witness ==
  /\ EnemyMoved(last)
  /\ tick = 0
  /\ last.dir = DIR_UP
  /\ Len(last.tries) = 1
  /\ last.tries[1].before.col = 10 /\ last.tries[1].before.row = 5
  /\ enemies[1].col = 10 /\ enemies[1].row = 4
  /\ player.col = 10 /\ player.row = 4 /\ ~player.is_alive

\* C17: enemy_update on an enemy whose is_alive is false does nothing, for
\* any slowdown and any player position: it makes no attempt and leaves the
\* enemy, the player and the grid as they were; and no step of the session
\* changes a dead enemy, so that its position, facing, is_ghosting and
\* move_slowdown stay frozen over any number of ticks.
C17_DeadEnemyFrozen ==
  [][/\ (EnemyStep /\ ~enemies[i + 1].is_alive)
          => /\ enemies' = enemies
             /\ player' = player
             /\ grid' = grid
             /\ last'.tries = <<>>
             /\ last'.dir = NoDir
             /\ ~last'.ret
     /\ \A k \in 1 .. Len(enemies) :
          ~enemies[k].is_alive => enemies'[k] = enemies[k]]_vars

\* the dead enemy has been updated in a late tick with its slowdown still 7,
\* the live player standing on its cell
C17_Witness ==
  /\ last.op = "enemy_update"
  /\ i = 2
  /\ tick >= 8
  /\ ~enemies[2].is_alive
  /\ enemies[2].move_slowdown = 7
  /\ enemies[2].col = 11 /\ enemies[2].row = 2
  /\ player.col = 11 /\ player.row = 2 /\ player.is_alive

\* C18: the collision test made after an enemy's update returns true iff the
\* enemy is alive, the player is alive and both stand on the same column and
\* row; the test itself changes neither: the enemy is as enemy_update left
\* it, and the player differs only by the is_alive that main clears on true.
C18_CollisionPredicate ==
  [][EnemyStep
       => LET e == enemies'[i + 1]
              n == Len(last'.tries)
          IN /\ last'.ret <=> (/\ e.is_alive /\ player.is_alive
                               /\ e.col = player.col /\ e.row = player.row)
             /\ player' = [player EXCEPT !.is_alive = @ /\ ~last'.ret]
             /\ n > 0 => e = last'.tries[n].after
             /\ n = 0 => \/ e = enemies[i + 1]
                         \/ e = [enemies[i + 1] EXCEPT !.move_slowdown = @ - 1]]_vars

\* the live enemy has just been found on the player's cell, the dead one
\* standing elsewhere
C18_Witness ==
  /\ last.op = "enemy_update"
  /\ i = 1
  /\ last.ret
  /\ enemies[1].is_alive /\ ~enemies[2].is_alive
  /\ enemies[1].col = player.col /\ enemies[1].row = player.row
  /\ ~player.is_alive

\* C19: after any successful move (player_move or enemy_try_move returning
\* true), from any starting position, the actor stands inside
\* [0,GRID_WIDTH) x [0,GRID_HEIGHT); and after initialisation a position is
\* written only by these two procedures, when they succeed.
C19_PositionsInBounds ==
  [][/\ (last'.op = "player_move" /\ pc = "events" /\ last'.ret)
          => InGrid(player'.col, player'.row)
     /\ EnemyStep
          => \A k \in 1 .. Len(last'.tries) :
               last'.tries[k].ret
                 => InGrid(last'.tries[k].after.col, last'.tries[k].after.row)
     /\ (EnemyStep /\ EnemyMoved(last'))
          => InGrid(enemies'[i + 1].col, enemies'[i + 1].row)
     /\ (player'.col # player.col \/ player'.row # player.row)
          => (pc = "events" /\ last'.op = "player_move" /\ last'.ret)
     /\ \A k \in 1 .. Len(enemies) :
          (enemies'[k].col # enemies[k].col \/ enemies'[k].row # enemies[k].row)
            => (EnemyStep /\ k = i + 1 /\ EnemyMoved(last'))]_vars

\* the enemy spawned outside the grid, on column 20, has made its first
\* successful move
C19_Witness ==
  /\ EnemyMoved(last)
  /\ last.tries[Len(last.tries)].before.col = GRID_WIDTH
  /\ enemies[1].col = GRID_WIDTH - 1
  /\ enemies[1].row = 5

\* C20: an enemy_update that acts makes its attempts in this order: possibly
\* one in a random direction, which ends the update if it succeeds; else one
\* in the preferred direction, which ends the update if it succeeds; else
\* exactly one in a direction among the three other than preferred. So at
\* most three attempts are made, only the last can succeed, every attempt
\* starts from the cell the enemy had, and the position changes by at most
\* one cell.
C20_DecisionSequence ==
  [][(EnemyStep /\ Len(last'.tries) > 0)
       => LET t == last'.tries
              n == Len(t)
              pref == last'.dir
              e == enemies[i + 1]
              e2 == enemies'[i + 1]
          IN /\ n <= 3
             /\ pref \in Dirs
             /\ \A k \in 1 .. n : t[k].before = e /\ t[k].dir \in Dirs
             /\ \A k \in 1 .. n - 1 : ~t[k].ret
             /\ n = 1 => t[1].ret
             /\ n = 2 => \/ t[2].dir = pref /\ t[2].ret
                         \/ t[1].dir = pref /\ t[2].dir # pref
             /\ n = 3 => t[2].dir = pref /\ t[3].dir # pref
             /\ abs(e2.col - e.col) + abs(e2.row - e.row) <= 1
             /\ (e2.col # e.col \/ e2.row # e.row) <=> t[n].ret]_vars

\* a random attempt and the preferred one, up into the rock, were refused and
\* the alternative moved the enemy
C20_Witness ==
  /\ EnemyMoved(last)
  /\ Len(last.tries) = 3
  /\ ~last.tries[1].ret
  /\ last.tries[2].dir = last.dir /\ ~last.tries[2].ret
  /\ last.dir = DIR_UP
  /\ last.tries[3].dir # last.dir
  /\ enemies[1].row = 6 /\ enemies[1].col # 10

\* C21: within every tick the player's moves (with their digging) and
\* player_update are over before any enemy_update runs: a move is made only
\* while the events are handled, player_update ends that phase and starts the
\* enemy loop at the first enemy, and during the enemy loop the player's
\* position and the grid stay as the moves left them. The enemies are updated
\* in array order, one per iteration, and an enemy that acts computes its
\* preferred direction from the position the player has then.
C21_TickOrdering ==
  [][/\ last'.op = "player_move"
          => (pc = "events" /\ pc' = "events" /\ enemies' = enemies)
     /\ last'.op = "player_update"
          => (pc = "events" /\ pc' = "enemies" /\ i' = 0
              /\ enemies' = enemies /\ grid' = grid
              /\ player'.col = player.col /\ player'.row = player.row)
     /\ last'.op = "enemy_update"
          => /\ pc = "enemies" /\ pc' = "enemies"
             /\ i < Len(enemies) /\ i' = i + 1
             /\ \A k \in 1 .. Len(enemies) :
                  k # i + 1 => enemies'[k] = enemies[k]
             /\ (enemies[i + 1].is_alive /\ enemies[i + 1].move_slowdown = 0)
                  => /\ Len(last'.tries) > 0
                     /\ last'.tries[1].before = enemies[i + 1]
                     /\ last'.dir = get_dir_to(enemies[i + 1].col,
                                               enemies[i + 1].row,
                                               player.col, player.row)
             /\ grid' = grid
             /\ player'.col = player.col /\ player'.row = player.row
     /\ last'.op = "render"
          => (pc = "enemies" /\ i = Len(enemies) /\ tick' = tick + 1)]_vars

\* in tick 11 the player has dug left from (10,3), the first enemy's cell, to
\* (9,3); the enemy has then computed Left (Up had the player not moved) and
\* has followed into the cell found a tunnel
C21_Witness ==
  /\ EnemyMoved(last)
  /\ i = 1
  /\ tick = 11
  /\ last.tries[1].before.col = 10 /\ last.tries[1].before.row = 3
  /\ player.col = 9 /\ player.row = 3
  /\ player.facing = DIR_LEFT /\ player.move_slowdown = 7
  /\ player.dirt_dug = 2
  /\ last.dir = DIR_LEFT
  /\ Len(last.tries) = 1
  /\ enemies[1].col = 9 /\ enemies[1].row = 3
  /\ ~enemies[1].is_ghosting /\ enemies[1].move_slowdown = 10

\* C22: when the collision test made right after an enemy's update is true,
\* it is the loop of main that sets player.is_alive to false: enemy_update
\* itself returns the player as it got it. The collision does not stop the
\* game loop: running is cleared only by the quit event, the loop is left
\* only with running false, and a tick that ends with running true is
\* followed by the next one whether the player is alive or not.
C22_CollisionConsequence ==
  [][/\ (EnemyStep /\ last'.ret)
          => /\ player.is_alive
             /\ player' = [player EXCEPT !.is_alive = FALSE]
             /\ running' = running
             /\ pc' = "enemies"
             /\ \A roll \in Rolls, rand_dir \in Dirs, pick \in Picks :
                  enemy_update(enemies[i + 1], player, grid,
                               roll, rand_dir, pick).player = player
     /\ running' # running => (last'.op = "quit" /\ ~running')
     /\ pc' = "done" => ~running
     /\ (last'.op = "render" /\ running) => (pc' = "events" /\ tick' = tick + 1)]_vars

\* the loop is in its sixth tick or later, still running, with a dead player
C22_Witness ==
  /\ ~player.is_alive
  /\ running
  /\ pc = "events"
  /\ last.op = "render"
  /\ tick >= 5

(***************************************************************************)
(* Grid module                                                             *)
(***************************************************************************)
\* C23: grid_get_tile returns the stored tile for every (row, col) inside
\* [0,GRID_HEIGHT) x [0,GRID_WIDTH) and Empty for every coordinate outside
\* it, negative or too large on either axis, and does not change the grid.
C23_GetTile ==
  [][last'.op = "grid_get_tile"
       => LET row == last'.row
              col == last'.col
          IN /\ grid' = grid
             /\ (row \in Rows /\ col \in Cols) => last'.ret = grid[row][col]
             /\ (row < 0 \/ row >= GRID_HEIGHT \/ col < 0 \/ col >= GRID_WIDTH)
                  => last'.ret = TILE_EMPTY]_vars

\* the rock's column has been read one row above the initialised grid, whose
\* nearest row holds a tile that has been stored and is not Empty
C23_Witness ==
  /\ last.op = "grid_get_tile"
  /\ last.row = -1 /\ last.col = 10
  /\ last.ret = TILE_EMPTY
  /\ grid[0][10] = TILE_ROCK
  /\ grid[5][10] = TILE_ROCK

\* C24: grid_set_tile with a (row, col) outside the grid changes no cell of
\* it; with a (row, col) inside the grid it stores the tile at exactly that
\* cell and leaves every other cell unchanged, so that grid_get_tile of that
\* cell, then and in a call that follows, returns the stored tile.
C24_SetTile ==
  [][/\ last'.op = "grid_set_tile"
          => LET row == last'.row
                 col == last'.col
             IN /\ ~(row \in Rows /\ col \in Cols) => grid' = grid
                /\ (row \in Rows /\ col \in Cols)
                     => /\ grid'[row][col] = last'.type
                        /\ \A r \in Rows, c \in Cols :
                             (r # row \/ c # col) => grid'[r][c] = grid[r][c]
                        /\ grid_get_tile(grid', row, col) = last'.type
     /\ (/\ last.op = "grid_set_tile" /\ last'.op = "grid_get_tile"
         /\ last.row \in Rows /\ last.col \in Cols
         /\ last'.row = last.row /\ last'.col = last.col)
          => last'.ret = last.type]_vars

\* a tile stored at the last column of the rock's row has been read back,
\* another store having been made at the first column of that row
C24_Witness ==
  /\ nevents = 3
  /\ last.op = "grid_get_tile"
  /\ last.row = 5 /\ last.col = GRID_WIDTH - 1
  /\ last.ret = TILE_ROCK
  /\ grid[5][GRID_WIDTH - 1] = TILE_ROCK
  /\ grid[5][0] = TILE_TUNNEL

\* C25: after grid_init every cell of rows 0 and 1 is Empty, row 2 is Tunnel
\* exactly at columns 5..14 and Dirt at its other columns, the cell (row 5,
\* col 10) is the only Rock and every remaining cell is Dirt, whatever the
\* array held before the call.
C25_GridInit ==
  [][last'.op = "grid_init"
       => /\ \A c \in Cols : grid'[0][c] = TILE_EMPTY /\ grid'[1][c] = TILE_EMPTY
          /\ \A c \in Cols : grid'[2][c] = TILE_TUNNEL <=> (5 <= c /\ c <= 14)
          /\ \A c \in Cols : grid'[2][c] \in {TILE_TUNNEL, TILE_DIRT}
          /\ RockCells(grid') = {<<5, 10>>}
          /\ \A r \in 3 .. GRID_HEIGHT - 1, c \in Cols :
               <<r, c>> # <<5, 10>> => grid'[r][c] = TILE_DIRT]_vars

\* grid_init has been called on an array written by two stores
C25_Witness ==
  /\ last.op = "grid_init"
  /\ nevents = 3
  /\ grid[0][0] = TILE_EMPTY
  /\ grid[2][5] = TILE_TUNNEL /\ grid[2][4] = TILE_DIRT
  /\ grid[5][10] = TILE_ROCK
  /\ grid[GRID_HEIGHT - 1][GRID_WIDTH - 1] = TILE_DIRT

(***************************************************************************)
(* Session of main                                                         *)
(***************************************************************************)
\* C26: dirt_dug never decreases over the session: it starts at 0, no step
\* decreases it, and it grows, by exactly 1, in exactly those calls of
\* player_move that turn a Dirt cell into Tunnel.
C26_DirtDugMonotone ==
  /\ player.dirt_dug = 0
  /\ [][/\ player'.dirt_dug >= player.dirt_dug
        /\ player'.dirt_dug # player.dirt_dug
             => /\ player'.dirt_dug = player.dirt_dug + 1
                /\ pc = "events" /\ last'.op = "player_move"
                /\ \E r \in Rows, c \in Cols :
                     grid[r][c] = TILE_DIRT /\ grid'[r][c] = TILE_TUNNEL
        /\ grid' # grid
             => /\ last'.op = "player_move"
                /\ player'.dirt_dug = player.dirt_dug + 1]_vars

\* the player has walked through a tunnel cell after two digs
C26_Witness ==
  /\ last.op = "player_move"
  /\ last.ret
  /\ last.tile = TILE_TUNNEL
  /\ player.dirt_dug = 2
  /\ grid[3][10] = TILE_TUNNEL

\* C27: in the session set up by main every actor, the player and each
\* enemy, stands inside [0,GRID_WIDTH) x [0,GRID_HEIGHT) in every reachable
\* state, the initial one included.
C27_ActorsInGrid ==
  /\ InGrid(player.col, player.row)
  /\ \A k \in 1 .. Len(enemies) : InGrid(enemies[k].col, enemies[k].row)

\* the live player and the live enemy k stand on the same cell
Overlap(k) ==
  /\ player.is_alive /\ enemies[k].is_alive
  /\ enemies[k].col = player.col /\ enemies[k].row = player.row

\* C28: whenever the player and a live enemy stand on the same cell at some
\* point of a tick, the player is marked dead by the end of that tick. An
\* overlap that exists during the tick exists when that enemy's turn in the
\* enemy loop comes (the player moves only before the loop); for the last
\* enemy of the loop the mark must then be set by its own iteration.
C28_OverlapKills ==
  [][(EnemyStep /\ i + 1 = Len(enemies) /\ Overlap(i + 1))
       => ~player'.is_alive]_vars

\* C29: at the end of every tick, after the enemy loop, no live enemy shares
\* the cell of a player that is still alive; and if an enemy, right after its
\* update, stands alive on the cell of the player, player.is_alive is false
\* when its iteration is over.
C29_NoOverlapAtEndOfTick ==
  /\ [](((pc = "enemies" /\ i = Len(enemies)) \/ last.op = "render")
          => \A k \in 1 .. Len(enemies) : ~Overlap(k))
  /\ [][(/\ EnemyStep
         /\ enemies'[i + 1].is_alive
         /\ enemies'[i + 1].col = player.col
         /\ enemies'[i + 1].row = player.row)
          => ~player'.is_alive]_vars

\* a tick has ended with the live enemy on the cell of the player, that its
\* update found alive on the cell it entered
C29_Witness ==
  /\ last.op = "render"
  /\ enemies[1].is_alive
  /\ enemies[1].col = player.col /\ enemies[1].row = player.row
  /\ ~player.is_alive
  /\ acted[1].at = tick - 1
  /\ enemies[1].col = 10 /\ enemies[1].row = 2

\* C30: player.is_alive is stable once false: no step sets it again; while
\* it is false enemy_collides_with_player is false for every enemy, in the
\* test of the loop as well; and the collision event happens at most once in
\* a session, a true test finding the player alive and leaving it dead.
C30_DeathIsStable ==
  /\ [](~player.is_alive
          => \A k \in 1 .. Len(enemies) :
               ~enemy_collides_with_player(enemies[k], player))
  /\ [][/\ ~player.is_alive
             => /\ ~player'.is_alive
                /\ last'.op = "enemy_update" => ~last'.ret
        /\ (last'.op = "enemy_update" /\ last'.ret)
             => (player.is_alive /\ ~player'.is_alive)]_vars

\* ticks after the collision, the enemy has been updated on the cell of the
\* dead player, who has moved since, and the test was false
C30_Witness ==
  /\ last.op = "enemy_update"
  /\ ~last.ret
  /\ ~player.is_alive
  /\ enemies[1].is_alive
  /\ enemies[1].col = player.col /\ enemies[1].row = player.row
  /\ tick >= 12
  /\ acted[1].at = 11
  /\ player.dirt_dug >= 2

CellsOf(g, t) == { rc \in Rows \X Cols : g[rc[1]][rc[2]] = t }

\* C32: in every reachable state of the session started by main, dirt_dug is
\* the number of cells that were Dirt after grid_init and are Tunnel now,
\* which is the number of Tunnel cells minus the 10 Tunnel cells of the
\* initial row 2.
C32_DirtDugCountsTunnels ==
  /\ player.dirt_dug
       = Cardinality(CellsOf(grid, TILE_TUNNEL)
                       \cap { rc \in Rows \X Cols :
                                (rc[1] > 2 \/ (rc[1] = 2 /\ (rc[2] < 5 \/ rc[2] > 14)))
                                /\ rc # <<5, 10>> })
  /\ player.dirt_dug = Cardinality(CellsOf(grid, TILE_TUNNEL)) - 10

\* the player has dug three cells
C32_Witness ==
  /\ player.dirt_dug = 3
  /\ Cardinality(CellsOf(grid, TILE_TUNNEL)) = 13
  /\ grid[3][10] = TILE_TUNNEL

\* C33: in every reachable state of the session started by main, where the
\* player is spawned on the Tunnel cell (10,2), the tile at the player's
\* position is Empty or Tunnel, never Dirt or Rock.
C33_PlayerOnOpenTile ==
  /\ InGrid(player.col, player.row)
  /\ grid[player.row][player.col] \in {TILE_EMPTY, TILE_TUNNEL}

\* the player stands on a cell it has just dug, next to the rock
C33_Witness ==
  /\ last.op = "player_move"
  /\ last.ret
  /\ last.tile = TILE_DIRT
  /\ player.row = 4 /\ player.col = 10
  /\ grid[4][10] = TILE_TUNNEL
  /\ grid[5][10] = TILE_ROCK

\* C34: the player moves at most one cell per tick. A player_move succeeds
\* only with move_slowdown 0, moves the player by exactly one cell and sets
\* move_slowdown to 3 or more; while the events of a frame are handled the
\* slowdown does not go down (player_update runs after the event loop), and
\* a player_move made with move_slowdown > 0 fails; so of two moves handled
\* in one frame the second fails if the first succeeded.
C34_OneMovePerTick ==
  [][/\ (last'.op = "player_move" /\ last'.ret)
          => /\ pc = "events"
             /\ player.move_slowdown = 0
             /\ player'.move_slowdown >= 3
             /\ abs(player'.col - player.col) + abs(player'.row - player.row) = 1
     /\ (last'.op = "player_move" /\ player.move_slowdown > 0)
          => (~last'.ret /\ player' = player)
     /\ (pc = "events" /\ pc' = "events")
          => player'.move_slowdown >= player.move_slowdown
     /\ (last'.op = "player_move" /\ last.op = "player_move" /\ last.ret)
          => ~last'.ret
     /\ last'.op = "player_update" => pc = "events" /\ pc' = "enemies"]_vars

\* in one frame a dig has succeeded and a second key event has been refused
C34_Witness ==
  /\ pc = "events"
  /\ nevents = 2
  /\ last.op = "player_move"
  /\ ~last.ret
  /\ player.move_slowdown = 8
  /\ tick = 8
  /\ player.dirt_dug = 2

\* C35: two consecutive successful moves of the same enemy are at least 10
\* ticks apart when the first entered Tunnel or Empty and at least 20 ticks
\* apart when it entered Dirt; and in every reachable state the enemy's
\* move_slowdown is within 0..20 and the player's within 0..8.
C35_EnemyMoveSpacing ==
  /\ [](/\ player.move_slowdown \in 0 .. 8
        /\ \A k \in 1 .. Len(enemies) : enemies[k].move_slowdown \in 0 .. 20)
  /\ [][(EnemyStep /\ EnemyMoved(last'))
          => LET e == enemies'[i + 1]
                 a == acted[i + 1]
             IN /\ acted'[i + 1].at = tick
                /\ acted'[i + 1].c = IF grid[e.row][e.col] = TILE_DIRT
                                     THEN 20 ELSE 10
                /\ a # Never => tick - a.at >= a.c]_vars

\* the enemy has made its second move in tick 21, the first having entered
\* dirt in tick 0
C35_Witness ==
  /\ EnemyMoved(last)
  /\ tick = 21
  /\ acted[1].at = 21
  /\ last.tries[1].before.col # 10

\* Manhattan distance between the cells (c1, r1) and (c2, r2)
Manhattan(c1, r1, c2, r2) == abs(c1 - c2) + abs(r1 - r2)

\* C36: whenever the enemy is not on the player's cell, a successful
\* enemy_try_move in the preferred direction brings the enemy exactly one
\* step nearer to the player in Manhattan distance.
C36_PreferredMoveApproaches ==
  [][(/\ EnemyStep
      /\ EnemyMoved(last')
      /\ last'.tries[Len(last'.tries)].dir = last'.dir
      /\ (enemies[i + 1].col # player.col \/ enemies[i + 1].row # player.row))
       => Manhattan(enemies'[i + 1].col, enemies'[i + 1].row,
                    player.col, player.row)
            = Manhattan(enemies[i + 1].col, enemies[i + 1].row,
                        player.col, player.row) - 1]_vars

\* the enemy spawned on column 20 has moved Left, its preferred direction,
\* after a refused random attempt, the player standing above its row
C36_Witness ==
  /\ EnemyMoved(last)
  /\ Len(last.tries) = 2
  /\ last.dir = DIR_LEFT
  /\ last.tries[2].dir = DIR_LEFT
  /\ last.tries[2].before.col = GRID_WIDTH
  /\ enemies[1].col = GRID_WIDTH - 1
  /\ player.row < enemies[1].row

(***************************************************************************)
(* Progress                                                                *)
(***************************************************************************)
\* C37: cooldowns always expire while the tick loop keeps running. Every
\* tick's player_update takes 1 off a player slowdown > 0 and every update
\* of a live enemy takes 1 off an enemy slowdown > 0, so that c ticks after
\* a move that set the slowdown c it is 0; a slowdown > 0 does reach 0, the
\* player is then allowed to move again and a live enemy attempts a move.
\* The frames counted on are those before the one in which the user quits.
C37_CooldownsExpire ==
  /\ [][/\ (last'.op = "player_update" /\ player.move_slowdown > 0)
             => player'.move_slowdown = player.move_slowdown - 1
        /\ (EnemyStep /\ enemies[i + 1].is_alive
                      /\ enemies[i + 1].move_slowdown > 0)
             => enemies'[i + 1].move_slowdown = enemies[i + 1].move_slowdown - 1
        /\ (last'.op = "player_move" /\ player.move_slowdown = 0
              /\ ~out_of_grid(new_col_of(player.col, last'.dir),
                              new_row_of(player.row, last'.dir))
              /\ last'.tile \in {TILE_EMPTY, TILE_TUNNEL})
             => last'.ret]_vars
  /\ [](\A k \in 1 .. Len(enemies) :
          (enemies[k].is_alive /\ acted[k] # Never /\ tick >= acted[k].at + acted[k].c
             /\ (tick > acted[k].at + acted[k].c \/ (pc = "enemies" /\ i >= k)))
            => enemies[k].move_slowdown = 0)
  /\ (player.move_slowdown > 0 /\ tick + player.move_slowdown < frames)
       ~> (player.move_slowdown = 0)
  /\ (/\ enemies[1].is_alive /\ enemies[1].move_slowdown > 0
      /\ tick + enemies[1].move_slowdown < frames)
       ~> (enemies[1].move_slowdown = 0)
  /\ (enemies[1].is_alive /\ tick + enemies[1].move_slowdown + 1 < frames)
       ~> (last.op = "enemy_update" /\ Len(last.tries) > 0)

\* the slowdown of the enemy's move into the tunnel in tick 0 has run out in
\* tick 10, and so has the slowdown of the player's dig of tick 0
C37_Witness ==
  /\ last.op = "enemy_update"
  /\ tick = 10
  /\ acted[1] = [at |-> 0, c |-> 10]
  /\ enemies[1].is_alive /\ enemies[1].move_slowdown = 0
  /\ player.move_slowdown = 0
  /\ player.dirt_dug = 1

\* enemy k has a neighbouring cell inside the grid that is not Rock
FreeNeighbour(k) ==
  \E d \in Dirs :
    /\ InGrid(enemies[k].col + DCol(d), enemies[k].row + DRow(d))
    /\ grid[enemies[k].row + DRow(d)][enemies[k].col + DCol(d)] # TILE_ROCK

\* C38: enemies do not get stuck for ever. With rand() resolved fairly, an
\* alive enemy that has a neighbouring cell inside the grid that is not Rock
\* eventually makes a successful move, from every state of the session, the
\* spawn cell of main included.
C38_EnemyNotStuck ==
  (enemies[1].is_alive /\ FreeNeighbour(1) /\ InBand)
    ~> (last.op = "enemy_update" /\ i = 1 /\ EnemyMoved(last))

\* the enemy spawned on (20,12) leaves its cell by the second alternative,
\* Left, after its random and its preferred attempt (Up, out of the grid)
\* have failed
C38_Witness ==
  /\ last.op = "enemy_update" /\ EnemyMoved(last)
  /\ Len(last.tries) = 3
  /\ last.tries[1].before.col = 20 /\ last.tries[1].before.row = 12
  /\ ~last.tries[1].ret /\ ~last.tries[2].ret
  /\ last.tries[3].dir = DIR_LEFT
  /\ enemies[1].col = 19 /\ enemies[1].row = 12

====
